---- MODULE Spec2Model ----
(***************************************************************************)
(* Model of the StackedPhones component (the unified click/touch/keyboard  *)
(* version): the container's class list, the stored active card, the      *)
(* overlay elements with their attributes, the registered DOM listeners   *)
(* and the custom events dispatched on the container.                     *)
(***************************************************************************)
EXTENDS Integers, Sequences, FiniteSets, TLC

\* Largest number of .phone-card children the container is constructed with.
MaxCards == 3

\* JavaScript null (activeCard, an absent attribute, a missing parent).
Null == "null"

(***************************************************************************)
(* JavaScript values passed to the public API: numbers and strings.       *)
(***************************************************************************)
JsNumber(n) == [type |-> "number", num |-> n, str |-> ""]
JsString(t) == [type |-> "string", num |-> 0, str |-> t]

Digit(d) == <<"0", "1", "2", "3", "4", "5", "6", "7", "8", "9">>[d + 1]

RECURSIVE NumberToString(_)
NumberToString(n) ==
  IF n < 10 THEN Digit(n) ELSE NumberToString(n \div 10) \o Digit(n % 10)

\* phoneNumber.toString(), isActive.toString()
JsToString(v) == IF v.type = "number" THEN NumberToString(v.num) ELSE v.str
BoolToString(b) == IF b THEN "true" ELSE "false"

\* getPhoneNumbers(): the fixed ordered item list.
getPhoneNumbers == <<"1", "2", "3">>
PhoneNumbers == {getPhoneNumbers[i] : i \in 1..Len(getPhoneNumbers)}

\* `phone-${phoneNumber}-active`
CardClass(phoneNumber) == "phone-" \o phoneNumber \o "-active"

\* The class the bootstrap selects containers by and closest() looks for.
StackClass == "phone-stack-container"

\* Array.prototype.indexOf, 0-based, -1 when absent.
IndexOf(seq, x) ==
  IF \E i \in 1..Len(seq) : seq[i] = x
  THEN (CHOOSE i \in 1..Len(seq) : seq[i] = x /\ \A j \in 1..(i - 1) : seq[j] # x) - 1
  ELSE -1

(***************************************************************************)
(* Function identities: addEventListener is given method.bind(this), a    *)
(* new function object; removeEventListener is given the method itself.   *)
(***************************************************************************)
BoundFn(method) == [method |-> method, bound |-> TRUE]
MethodFn(method) == [method |-> method, bound |-> FALSE]

AddEventListener(ls, target, type, fn) ==
  ls \cup {[target |-> target, type |-> type, fn |-> fn]}
RemoveEventListener(ls, target, type, fn) ==
  ls \ {[target |-> target, type |-> type, fn |-> fn]}

VARIABLES
  phoneCards,   \* this.phoneCards.length
  classList,    \* this.container.classList
  activeCard,   \* this.activeCard
  overlays,     \* this.overlays: sequence of overlay elements
  dom,          \* the overlay elements ever created: attributes and parent
  listeners,    \* registered DOM listeners (target, type, function)
  config,       \* this.config
  warnings,     \* number of console.warn diagnostics
  destroyed,    \* destroy() has logged 'Component destroyed'
  thrown,       \* the exception the constructor threw, or null
  hook,         \* a { once: true } listener the page has put on the container, or none
  dispatched,   \* custom events dispatched on the container by the last operation
  invoked,      \* handlers and togglePhone calls run by the last operation, in order
  lastOp,       \* the last operation or input event
  pre,          \* classList, activeCard, overlays and dom before the last operation
  prevCall      \* the operation before the last, when it was an activatePhone call

vars == <<phoneCards, classList, activeCard, overlays, dom, listeners, config,
          warnings, destroyed, thrown, hook, dispatched, invoked, lastOp, pre,
          prevCall>>

\* The instance together with the part of the document it touches.
Self ==
  [phoneCards |-> phoneCards, classList |-> classList, activeCard |-> activeCard,
   overlays |-> overlays, dom |-> dom, listeners |-> listeners, config |-> config,
   warnings |-> warnings, destroyed |-> destroyed, thrown |-> thrown, hook |-> hook,
   dispatched |-> <<>>, invoked |-> <<>>]

Snapshot(s) ==
  [classList |-> s.classList, activeCard |-> s.activeCard,
   overlays |-> s.overlays, dom |-> s.dom,
   listeners |-> s.listeners, config |-> s.config]

\* What is kept of an operation once another has followed it: for an activatePhone
\* call the item asked for and the active card it was called in.
NoCall == [op |-> "other", item |-> Null, activeCard |-> Null]

CallOf(op, activeBefore) ==
  IF op.op = "activatePhone"
  THEN [op |-> "activatePhone", item |-> JsToString(op.arg), activeCard |-> activeBefore]
  ELSE IF op.op = "destroy"
  THEN [op |-> "destroy", item |-> Null, activeCard |-> activeBefore]
  ELSE NoCall

\* An operation or an input needs an instance: a constructor that threw gave none.
Becomes(s, op) ==
  /\ thrown = Null
  /\ phoneCards' = s.phoneCards
  /\ classList' = s.classList
  /\ activeCard' = s.activeCard
  /\ overlays' = s.overlays
  /\ dom' = s.dom
  /\ listeners' = s.listeners
  /\ config' = s.config
  /\ warnings' = s.warnings
  /\ destroyed' = s.destroyed
  /\ thrown' = s.thrown
  /\ hook' = s.hook
  /\ dispatched' = s.dispatched
  /\ invoked' = s.invoked
  /\ lastOp' = op
  /\ pre' = Snapshot(Self)
  /\ prevCall' = CallOf(lastOp, pre.activeCard)

(***************************************************************************)
(* The state machine: togglePhone, deactivateAll, updateAriaStates and    *)
(* dispatchEvent, as functions from instance state to instance state.     *)
(***************************************************************************)

\* dispatchEvent(eventName, detail = {}): detail is { ...detail, instance: this }.
NoDetail == [k \in {} |-> Null]

\* What a listener on the container finds when it inspects the instance and the
\* document during a dispatch.
Observed(s) ==
  [classList |-> s.classList, activeCard |-> s.activeCard,
   overlays |-> s.overlays, dom |-> s.dom]

Called(s, name) == [s EXCEPT !.invoked = Append(@, name)]

\* A listener of the page on the container: on an event of type `on` it calls
\* e.detail.instance.activatePhone(arg) or e.detail.instance.cycleToNext().
NoHook == [on |-> Null, call |-> Null, arg |-> JsString("")]

RECURSIVE dispatchEvent(_, _, _)
RECURSIVE deactivateAll(_)
RECURSIVE togglePhone(_, _)
RECURSIVE activatePhone(_, _)
RECURSIVE cycleToNext(_)

\* container.dispatchEvent(event) runs the listeners before it returns; a once
\* listener is removed before it is called. The log keeps, with each event, the
\* state its listeners saw.
dispatchEvent(s, eventName, detail) ==
  LET event == [type |-> eventName,
                detail |-> ([instance |-> "this"] @@ detail),
                bubbles |-> TRUE,
                seen |-> Observed(s)]
      s1 == [s EXCEPT !.dispatched = Append(@, event)]
  IN  IF s1.hook.on = eventName
      THEN LET s2 == Called([s1 EXCEPT !.hook = NoHook], "listener")
           IN  IF s1.hook.call = "activatePhone"
               THEN activatePhone(s2, s1.hook.arg)
               ELSE cycleToNext(s2)
      ELSE s1

\* An updateAriaStates that compares the 0-based index itself, not index + 1.
updateAriaStatesZeroBased(s, activePhoneNumber) ==
  LET Flag(i) == BoolToString(NumberToString(i - 1) = activePhoneNumber)
      IndexOfNode(n) == CHOOSE i \in 1..Len(s.overlays) : s.overlays[i] = n
      Listed(n) == \E i \in 1..Len(s.overlays) : s.overlays[i] = n
  IN  [s EXCEPT !.dom =
         [n \in DOMAIN s.dom |->
            IF Listed(n)
            THEN [s.dom[n] EXCEPT !.ariaPressed = Flag(IndexOfNode(n)),
                                  !.ariaExpanded = Flag(IndexOfNode(n))]
            ELSE s.dom[n]]]

\* updateAriaStates(activePhoneNumber): overlay at index i stands for (i+1).toString().
updateAriaStates(s, activePhoneNumber) ==
  LET Flag(i) == BoolToString(NumberToString(i) = activePhoneNumber)
      IndexOfNode(n) == CHOOSE i \in 1..Len(s.overlays) : s.overlays[i] = n
      Listed(n) == \E i \in 1..Len(s.overlays) : s.overlays[i] = n
  IN  [s EXCEPT !.dom =
         [n \in DOMAIN s.dom |->
            IF Listed(n)
            THEN [s.dom[n] EXCEPT !.ariaPressed = Flag(IndexOfNode(n)),
                                  !.ariaExpanded = Flag(IndexOfNode(n))]
            ELSE s.dom[n]]]

\* A remove() that names only the first marker.
RemoveFirstActiveClassOnly(classes) ==
  classes \ {"phone-1-active"}

\* classList.remove('phone-1-active', 'phone-2-active', 'phone-3-active')
RemoveActiveClasses(classes) ==
  classes \ {"phone-1-active", "phone-2-active", "phone-3-active"}

deactivateAll(s) ==
  LET s1 == [s EXCEPT !.classList = RemoveActiveClasses(@), !.activeCard = Null]
      s2 == updateAriaStates(s1, Null)
  IN  dispatchEvent(s2, "phoneDeactivated", NoDetail)

togglePhone(s0, phoneNumber) ==
  LET s == Called(s0, "togglePhone")
      cardClass == CardClass(phoneNumber)
  IN  IF cardClass \in s.classList
      THEN deactivateAll(s)
      ELSE LET s1 == deactivateAll(s)
               s2 == [s1 EXCEPT !.classList = @ \cup {cardClass},
                                !.activeCard = phoneNumber]
               s3 == updateAriaStates(s2, phoneNumber)
           IN  dispatchEvent(s3, "phoneActivated", [phoneNumber |-> phoneNumber])

(***************************************************************************)
(* Public API.                                                            *)
(***************************************************************************)
activatePhone(s, phoneNumber) == togglePhone(s, JsToString(phoneNumber))

getActivePhone == activeCard

\* An isPhoneActive that compares the argument as given: this.activeCard === phoneNumber.
isPhoneActiveNoToString(phoneNumber) ==
  phoneNumber.type = "string" /\ activeCard = phoneNumber.str

isPhoneActive(phoneNumber) == activeCard = JsToString(phoneNumber)

cycleToNext(s) ==
  LET phones == getPhoneNumbers
      currentIndex == IndexOf(phones, s.activeCard)
      nextIndex == (currentIndex + 1) % Len(phones)
  IN  IF currentIndex = -1
      THEN activatePhone(s, JsString(phones[1]))
      ELSE activatePhone(s, JsString(phones[nextIndex + 1]))

(***************************************************************************)
(* Construction: constructor, init, createClickOverlays, bindEvents.      *)
(***************************************************************************)
overlayConfigs ==
  << [className |-> "click-overlay click-overlay-1", phoneNumber |-> "1", fullWidth |-> TRUE],
     [className |-> "click-overlay click-overlay-2", phoneNumber |-> "2", fullWidth |-> FALSE],
     [className |-> "click-overlay click-overlay-3", phoneNumber |-> "3", fullWidth |-> FALSE] >>

\* An overlay element is named by its className; aria-pressed and aria-expanded
\* are not set at creation.
createClickOverlays(s) ==
  LET names == {overlayConfigs[i].className : i \in 1..Len(overlayConfigs)}
      ConfigOf(n) == CHOOSE c \in {overlayConfigs[i] : i \in 1..Len(overlayConfigs)} :
                       c.className = n
      created == [n \in names |->
                    [dataPhone |-> ConfigOf(n).phoneNumber,
                     role |-> "button",
                     ariaPressed |-> Null,
                     ariaExpanded |-> Null,
                     parent |-> "container"]]
  IN  [s EXCEPT !.dom = created @@ @,
                !.overlays = @ \o [i \in 1..Len(overlayConfigs) |-> overlayConfigs[i].className]]

RECURSIVE BindOverlays(_, _)
BindOverlays(ls, i_overlays) ==
  IF i_overlays = <<>> THEN ls
  ELSE LET overlay == Head(i_overlays)
           l1 == AddEventListener(ls, overlay, "click", BoundFn("handleInteraction"))
           l2 == AddEventListener(l1, overlay, "touchend", BoundFn("handleTouchInteraction"))
           l3 == AddEventListener(l2, overlay, "keydown", BoundFn("handleKeyboard"))
       IN  BindOverlays(l3, Tail(i_overlays))

bindEvents(s) ==
  LET l1 == BindOverlays(s.listeners, s.overlays)
  IN  [s EXCEPT !.listeners =
         IF s.config.enableClickOutside
         THEN AddEventListener(l1, "document", "click", BoundFn("handleClickOutside"))
         ELSE l1]

\* enableDebugMode only restyles the overlays; debugMode is false at construction.
init(s) == bindEvents(createClickOverlays(s))

\* The argument of the constructor: null, or an element with nCards .phone-card
\* children that carries the class the bootstrap selects it by.
NullContainer == [isNull |-> TRUE, cards |-> 0]
Element(nCards) == [isNull |-> FALSE, cards |-> nCards]

\* new StackedPhones(container). Line 9 reads container.querySelectorAll before line 22 tests !container: on a null
\* container it throws a TypeError, after the assignment of this.container only.
constructor(container) ==
  LET s == [phoneCards |-> container.cards,
            classList |-> {StackClass},
            activeCard |-> Null,
            overlays |-> <<>>,
            dom |-> [n \in {} |-> Null],
            listeners |-> {},
            config |-> [debugMode |-> FALSE, enableClickOutside |-> TRUE],
            warnings |-> 0,
            destroyed |-> FALSE,
            thrown |-> Null,
            hook |-> NoHook,
            dispatched |-> <<>>,
            invoked |-> <<>>]
  IN  IF container.isNull
      THEN [s EXCEPT !.classList = {}, !.thrown = "TypeError"]
      ELSE IF container.cards = 0
      THEN [s EXCEPT !.warnings = @ + 1]
      ELSE init(s)

(***************************************************************************)
(* destroy(): removeEventListener is given the unbound methods.           *)
(***************************************************************************)
\* An UnbindOverlays that leaves the overlay elements in the container.
RECURSIVE UnbindOverlaysAttached(_, _)
UnbindOverlaysAttached(s, i_overlays) ==
  IF i_overlays = <<>> THEN s
  ELSE LET overlay == Head(i_overlays)
           l1 == RemoveEventListener(s.listeners, overlay, "click", MethodFn("handleInteraction"))
           l2 == RemoveEventListener(l1, overlay, "touchend", MethodFn("handleTouchInteraction"))
           l3 == RemoveEventListener(l2, overlay, "keydown", MethodFn("handleKeyboard"))
           s1 == [s EXCEPT !.listeners = l3]
       IN  UnbindOverlaysAttached(s1, Tail(i_overlays))

RECURSIVE UnbindOverlays(_, _)
UnbindOverlays(s, i_overlays) ==
  IF i_overlays = <<>> THEN s
  ELSE LET overlay == Head(i_overlays)
           l1 == RemoveEventListener(s.listeners, overlay, "click", MethodFn("handleInteraction"))
           l2 == RemoveEventListener(l1, overlay, "touchend", MethodFn("handleTouchInteraction"))
           l3 == RemoveEventListener(l2, overlay, "keydown", MethodFn("handleKeyboard"))
           s1 == [s EXCEPT !.listeners = l3, !.dom[overlay].parent = Null]
       IN  UnbindOverlays(s1, Tail(i_overlays))

destroy(s) ==
  LET s1 == UnbindOverlays(s, s.overlays)
      s2 == IF s1.config.enableClickOutside
            THEN [s1 EXCEPT !.listeners =
                    RemoveEventListener(@, "document", "click", MethodFn("handleClickOutside"))]
            ELSE s1
  IN  [s2 EXCEPT !.overlays = <<>>, !.activeCard = Null, !.destroyed = TRUE]

(***************************************************************************)
(* The document around the instance: its own container, an element inside *)
(* another .phone-stack-container of the page, and the page body.         *)
(***************************************************************************)
OtherTargets == {"container", "other-card", "body"}

Parent(s, node) ==
  IF node \in DOMAIN s.dom THEN s.dom[node].parent
  ELSE IF node = "container" THEN "body"
  ELSE IF node = "other-card" THEN "other-container"
  ELSE IF node = "other-container" THEN "body"
  ELSE IF node = "body" THEN "document"
  ELSE Null

HasClass(s, node, class) ==
  IF node = "container" THEN class \in s.classList
  ELSE IF node = "other-container" THEN class = StackClass
  ELSE FALSE

\* element.closest('.class'): the element or its nearest ancestor element with the class.
RECURSIVE Closest(_, _, _)
Closest(s, node, class) ==
  IF node = Null \/ node = "document" THEN Null
  ELSE IF HasClass(s, node, class) THEN node
  ELSE Closest(s, Parent(s, node), class)

GetDataPhone(s, node) ==
  IF node \in DOMAIN s.dom THEN s.dom[node].dataPhone ELSE Null

NewEvent(type, target, key) ==
  [type |-> type, target |-> target, key |-> key,
   defaultPrevented |-> FALSE, propagationStopped |-> FALSE]

Consume(e) == [e EXCEPT !.defaultPrevented = TRUE, !.propagationStopped = TRUE]

(***************************************************************************)
(* Event handlers: each takes the instance and the event and returns both. *)
(***************************************************************************)
handleInteraction(s, e) ==
  LET phoneNumber == GetDataPhone(s, e.target)
  IN  [s |-> togglePhone(s, phoneNumber), e |-> Consume(e)]

\* A handleTouchInteraction that neither prevents the default action nor stops
\* propagation.
handleTouchInteractionPassive(s, e) ==
  LET phoneNumber == GetDataPhone(s, e.target)
  IN  [s |-> togglePhone(s, phoneNumber), e |-> e]

handleTouchInteraction(s, e) ==
  LET phoneNumber == GetDataPhone(s, e.target)
  IN  [s |-> togglePhone(s, phoneNumber), e |-> Consume(e)]

\* A handleKeyboard that accepts Enter only.
handleKeyboardEnterOnly(s, e) ==
  IF e.key = "Enter"
  THEN LET phoneNumber == GetDataPhone(s, e.target)
       IN  [s |-> togglePhone(s, phoneNumber), e |-> Consume(e)]
  ELSE [s |-> s, e |-> e]

handleKeyboard(s, e) ==
  IF e.key = "Enter" \/ e.key = " "
  THEN LET phoneNumber == GetDataPhone(s, e.target)
       IN  [s |-> togglePhone(s, phoneNumber), e |-> Consume(e)]
  ELSE [s |-> s, e |-> e]

\* JavaScript truthiness of this.activeCard (null or a string).
Truthy(v) == v # Null /\ v # ""

\* A handleClickOutside that does not look at this.activeCard.
handleClickOutsideUnguarded(s, e) ==
  IF Closest(s, e.target, StackClass) = Null
  THEN [s |-> deactivateAll(s), e |-> e]
  ELSE [s |-> s, e |-> e]

handleClickOutside(s, e) ==
  IF Closest(s, e.target, StackClass) = Null /\ Truthy(s.activeCard)
  THEN [s |-> deactivateAll(s), e |-> e]
  ELSE [s |-> s, e |-> e]

Invoke(s0, e, fn) ==
  LET s == Called(s0, fn.method)
  IN  IF fn.method = "handleInteraction" THEN handleInteraction(s, e)
      ELSE IF fn.method = "handleTouchInteraction" THEN handleTouchInteraction(s, e)
      ELSE IF fn.method = "handleKeyboard" THEN handleKeyboard(s, e)
      ELSE handleClickOutside(s, e)

\* Every listener registered on the node for the event's type runs.
RECURSIVE InvokeAll(_, _, _)
InvokeAll(s, e, ls) ==
  IF ls = {} THEN [s |-> s, e |-> e]
  ELSE LET l == CHOOSE x \in ls : TRUE
           r == Invoke(s, e, l.fn)
       IN  InvokeAll(r.s, r.e, ls \ {l})

\* Bubbling from the node up to the document, until propagation is stopped.
RECURSIVE Propagate(_, _, _)
Propagate(s, e, node) ==
  IF node = Null THEN [s |-> s, e |-> e]
  ELSE LET here == {l \in s.listeners : l.target = node /\ l.type = e.type}
           r == InvokeAll(s, e, here)
       IN  IF r.e.propagationStopped THEN r
           ELSE Propagate(r.s, r.e, Parent(s, node))

\* A touchend whose default action is not prevented is followed by a synthesized
\* click on the same target.
TouchSequence(s, target) ==
  LET r == Propagate(s, NewEvent("touchend", target, Null), target)
  IN  IF r.e.defaultPrevented THEN r
      ELSE Propagate(r.s, NewEvent("click", target, Null), target)

(***************************************************************************)
(* Operations and input events.                                           *)
(***************************************************************************)
Keys == {"Enter", " ", "Tab"}

\* The configured items, as strings and as numbers.
ApiArguments ==
  {JsString(p) : p \in PhoneNumbers} \cup {JsNumber(n) : n \in 1..Len(getPhoneNumbers)}

NoArg == JsString("")

Op(op, target, key, arg) == [op |-> op, target |-> target, key |-> key, arg |-> arg]

Init ==
  \E missing \in 0..(MaxCards + 1) :
    LET s == constructor(IF missing > MaxCards THEN NullContainer
                         ELSE Element(MaxCards - missing))
    IN  /\ phoneCards = s.phoneCards
        /\ classList = s.classList
        /\ activeCard = s.activeCard
        /\ overlays = s.overlays
        /\ dom = s.dom
        /\ listeners = s.listeners
        /\ config = s.config
        /\ warnings = s.warnings
        /\ destroyed = s.destroyed
        /\ thrown = s.thrown
        /\ hook = s.hook
        /\ dispatched = s.dispatched
        /\ invoked = s.invoked
        /\ lastOp = Op("new", Null, Null, NoArg)
        /\ pre = Snapshot(s)
        /\ prevCall = NoCall

\* A click on an overlay element (attached, or a retained detached one).
ClickOverlay(o) ==
  /\ o \in DOMAIN dom
  /\ Becomes(Propagate(Self, NewEvent("click", o, Null), o).s, Op("click", o, Null, NoArg))

\* A click on an element that is not an overlay of this instance.
ClickElsewhere(t) ==
  /\ t \in OtherTargets
  /\ Becomes(Propagate(Self, NewEvent("click", t, Null), t).s, Op("click", t, Null, NoArg))

TouchEnd(o) ==
  /\ o \in DOMAIN dom
  /\ Becomes(TouchSequence(Self, o).s, Op("touchend", o, Null, NoArg))

KeyDown(o, key) ==
  /\ o \in DOMAIN dom
  /\ Becomes(Propagate(Self, NewEvent("keydown", o, key), o).s, Op("keydown", o, key, NoArg))

ActivatePhone(p) ==
  /\ p \in ApiArguments
  /\ Becomes(activatePhone(Self, p), Op("activatePhone", Null, Null, p))

CycleToNext ==
  /\ Becomes(cycleToNext(Self), Op("cycleToNext", Null, Null, NoArg))

Destroy ==
  /\ Becomes(destroy(Self), Op("destroy", Null, Null, NoArg))

\* instance.config.enableClickOutside = b
SetEnableClickOutside(b) ==
  /\ Becomes([Self EXCEPT !.config.enableClickOutside = b],
             Op("setEnableClickOutside", Null, Null, JsString(BoolToString(b))))

Next ==
  \/ \E o \in DOMAIN dom : ClickOverlay(o)
  \/ \E t \in OtherTargets : ClickElsewhere(t)
  \/ \E o \in DOMAIN dom : TouchEnd(o)
  \/ \E o \in DOMAIN dom, key \in Keys : KeyDown(o, key)
  \/ \E p \in ApiArguments : ActivatePhone(p)
  \/ CycleToNext
  \/ Destroy
  \/ \E b \in BOOLEAN : SetEnableClickOutside(b)

Spec == Init /\ [][Next]_vars

\* Listeners that call back into the instance.
EventTypes == {"phoneActivated", "phoneDeactivated"}

Hooks ==
  {[on |-> t, call |-> "activatePhone", arg |-> JsString(p)] :
     t \in EventTypes, p \in PhoneNumbers}
  \cup {[on |-> t, call |-> "cycleToNext", arg |-> NoArg] : t \in EventTypes}

\* container.addEventListener(h.on, listener, { once: true })
AddContainerListener(h) ==
  /\ hook = NoHook
  /\ Becomes([Self EXCEPT !.hook = h], Op("addEventListener", "container", Null, h.arg))

\* The operations that start a toggle or a deactivate transition, and the page
\* registering a listener.
NextNested ==
  \/ \E h \in Hooks : AddContainerListener(h)
  \/ \E o \in DOMAIN dom : ClickOverlay(o)
  \/ \E t \in OtherTargets : ClickElsewhere(t)
  \/ \E p \in ApiArguments : ActivatePhone(p)
  \/ CycleToNext

SpecNested == Init /\ [][NextNested]_vars

(***************************************************************************)
(* Vocabulary of the properties.                                          *)
(***************************************************************************)
\* The phone-N-active markers on the container.
ActiveMarkers(classes) == classes \ {StackClass}

\* The overlay elements the instance holds (this.overlays).
OverlaySet == {overlays[i] : i \in 1..Len(overlays)}

Pressed(n) == dom[n].ariaPressed
Expanded(n) == dom[n].ariaExpanded

\* The last operation was an input event on an overlay that asks for a toggle.
ToggleInput ==
  /\ lastOp.op \in {"click", "touchend", "keydown"}
  /\ lastOp.target \in DOMAIN dom
  /\ lastOp.op = "keydown" => lastOp.key \in {"Enter", " "}

\* The last operation asked for the activation of item x.
Activated(x) ==
  \/ lastOp.op = "activatePhone" /\ JsToString(lastOp.arg) = x
  \/ ToggleInput /\ dom[lastOp.target].dataPhone = x

\* C1: after every operation or input at most one item is marked active: the
\* container carries at most one phone-N-active marker, at most one overlay element
\* has aria-pressed true, at most one has aria-expanded true, and the stored active
\* card is null or one configured item.
MutualExclusion ==
  /\ Cardinality(ActiveMarkers(classList)) <= 1
  /\ Cardinality({n \in DOMAIN dom : Pressed(n) = "true"}) <= 1
  /\ Cardinality({n \in DOMAIN dom : Expanded(n) = "true"}) <= 1
  /\ getActivePhone \in PhoneNumbers \cup {Null}

\* A switch from item 1 to item 3 by a click, with three overlays in place.
MutualExclusionWitness ==
  /\ lastOp.op = "click"
  /\ pre.activeCard = "1"
  /\ activeCard = "3"
  /\ Len(overlays) = 3
  /\ classList = {StackClass, "phone-3-active"}
  /\ {n \in DOMAIN dom : Pressed(n) = "true"} = {"click-overlay click-overlay-3"}

\* The state is Idle: no active card, no marker on the container and aria-pressed
\* and aria-expanded false on every overlay of the instance.
IdleResult ==
  /\ getActivePhone = Null
  /\ ActiveMarkers(classList) = {}
  /\ \A n \in OverlaySet : Pressed(n) = "false" /\ Expanded(n) = "false"

\* Activating item X while X is the active card ends in Idle.
ToggleOffWhenActive ==
  \A x \in PhoneNumbers : (Activated(x) /\ pre.activeCard = x) => IdleResult

\* activatePhone(X); activatePhone(X), the first called with no active card, ends
\* in Idle.
ToggleOffAfterTwoCalls ==
  \A x \in PhoneNumbers :
    (/\ lastOp.op = "activatePhone" /\ JsToString(lastOp.arg) = x
     /\ prevCall.op = "activatePhone" /\ prevCall.item = x
     /\ prevCall.activeCard = Null) => IdleResult

\* C2: activating item X while X is the active card ends in Idle (no active card,
\* no marker, every overlay's aria-pressed and aria-expanded false); in particular
\* activatePhone(X); activatePhone(X) started with no active card ends in Idle.
ToggleOffOnRepeat == ToggleOffWhenActive /\ ToggleOffAfterTwoCalls

\* C3: activating item Y while another item X is the active card ends in Active(Y):
\* the stored active card is Y, the container carries the marker of Y and not that
\* of X, the overlay of X has aria-pressed and aria-expanded false and the overlay
\* of Y has them true.
Switching ==
  \A x, y \in PhoneNumbers :
    (x # y /\ Activated(y) /\ pre.activeCard = x) =>
      /\ getActivePhone = y
      /\ CardClass(y) \in classList
      /\ CardClass(x) \notin classList
      /\ \A n \in OverlaySet :
           /\ dom[n].dataPhone = x => Pressed(n) = "false" /\ Expanded(n) = "false"
           /\ dom[n].dataPhone = y => Pressed(n) = "true" /\ Expanded(n) = "true"

\* activatePhone(2) on a live instance whose active card is 1.
SwitchingWitness ==
  /\ Len(pre.overlays) = 3
  /\ lastOp.op = "activatePhone"
  /\ JsToString(lastOp.arg) = "2"
  /\ pre.activeCard = "1"
  /\ pre.dom["click-overlay click-overlay-1"].ariaPressed = "true"
  /\ activeCard = "2"
  /\ Pressed("click-overlay click-overlay-1") = "false"
  /\ Pressed("click-overlay click-overlay-2") = "true"

\* The item after x in the fixed order, wrapping from the last to the first.
NextInOrder(x) ==
  getPhoneNumbers[((IndexOf(getPhoneNumbers, x) + 1) % Len(getPhoneNumbers)) + 1]

\* C4: cycleToNext() called with no active card activates the first configured
\* item; called with item x active it activates the item after x in the order
\* 1, 2, 3, wrapping from 3 to 1; it never ends in Idle.
CycleVisitsInOrder ==
  lastOp.op = "cycleToNext" =>
    /\ pre.activeCard = Null => getActivePhone = getPhoneNumbers[1]
    /\ \A x \in PhoneNumbers : pre.activeCard = x => getActivePhone = NextInOrder(x)
    /\ getActivePhone # Null

\* The last operation was a click whose target lies outside the instance's container.
OutsideTargets == {"other-card", "body"}

OutsideClick == lastOp.op = "click" /\ lastOp.target \in OutsideTargets

EmittedTypes == {dispatched[i].type : i \in 1..Len(dispatched)}

\* Nothing observable changed in the last operation and nothing was emitted.
NothingHappened ==
  /\ activeCard = pre.activeCard
  /\ classList = pre.classList
  /\ dom = pre.dom
  /\ dispatched = <<>>

\* Outside-click dismissal is enabled: the flag is set and bindEvents registered the
\* document listener under it.
DismissalEnabled ==
  /\ config.enableClickOutside
  /\ \E l \in listeners : l.target = "document" /\ l.fn.method = "handleClickOutside"

\* C5: with outside-click dismissal enabled and an item active, every click whose
\* target lies outside the instance's container ends in Idle and emits
\* phoneDeactivated.
OutsideClickDismisses ==
  (OutsideClick /\ DismissalEnabled /\ pre.activeCard # Null) =>
    /\ getActivePhone = Null
    /\ "phoneDeactivated" \in EmittedTypes

\* C6: with config.enableClickOutside false, a click outside the container changes
\* nothing (active card, markers, ARIA flags) and emits nothing.
DisabledOutsideClickIsNoOp ==
  (OutsideClick /\ ~config.enableClickOutside) => NothingHappened

\* C7: after destroy(), a click, touchend or keydown on a former overlay or a
\* click outside the container changes nothing and emits nothing.
NoInputEffectAfterDestroy ==
  (destroyed /\ lastOp.op \in {"click", "touchend", "keydown"}) => NothingHappened

\* C8: an instance constructed over zero cards has warned exactly once, has no
\* overlays and no listeners, and stays without active card, without marker and
\* without notification whatever is called on it.
InertInstance ==
  (thrown = Null /\ phoneCards = 0) =>
    /\ warnings = 1
    /\ overlays = <<>>
    /\ DOMAIN dom = {}
    /\ listeners = {}
    /\ getActivePhone = Null
    /\ ActiveMarkers(classList) = {}
    /\ dispatched = <<>>

\* C9: an operation that changes the active card emits phoneActivated carrying the
\* new card and the instance when it ends in Active(X), and emits phoneDeactivated,
\* carrying only the instance, when and only when it ends in Idle.
NotificationsMatchTransition ==
  activeCard # pre.activeCard =>
    /\ activeCard # Null =>
         \E i \in 1..Len(dispatched) :
           /\ dispatched[i].type = "phoneActivated"
           /\ dispatched[i].detail = [phoneNumber |-> activeCard, instance |-> "this"]
    /\ ("phoneDeactivated" \in EmittedTypes) <=> (activeCard = Null)
    /\ \A i \in 1..Len(dispatched) :
         dispatched[i].type = "phoneDeactivated" =>
           dispatched[i].detail = [instance |-> "this"]

\* The instance as it was before the last operation.
PreSelf ==
  [Self EXCEPT !.classList = pre.classList, !.activeCard = pre.activeCard,
               !.overlays = pre.overlays, !.dom = pre.dom]

\* C10: a click, a touchend, a keydown of Enter and a keydown of Space on the
\* overlay of item X each leave the active card, the markers and the ARIA flags as
\* the toggle operation on X leaves them and emit the same notifications in the
\* same order; a keydown of any other key changes nothing.
InputModalityEquivalence ==
  /\ ToggleInput =>
       LET r == togglePhone(PreSelf, dom[lastOp.target].dataPhone)
       IN  /\ activeCard = r.activeCard
           /\ classList = r.classList
           /\ dom = r.dom
           /\ dispatched = r.dispatched
  /\ (lastOp.op = "keydown" /\ lastOp.key \notin {"Enter", " "}) => NothingHappened

\* A keydown of Space on the overlay of item 3 while item 1 is active.
InputModalityEquivalenceWitness ==
  /\ lastOp.op = "keydown"
  /\ lastOp.key = " "
  /\ lastOp.target = "click-overlay click-overlay-3"
  /\ pre.activeCard = "1"
  /\ activeCard = "3"
  /\ Len(dispatched) = 2

(***************************************************************************)
(* activatePhone with an argument outside the configured items.           *)
(***************************************************************************)
OtherArguments == {JsString("4"), JsNumber(4)}

ActivateOther(p) ==
  /\ p \in OtherArguments
  /\ Becomes(activatePhone(Self, p), Op("activatePhone", Null, Null, p))

NextAny ==
  \/ Next
  \/ \E p \in OtherArguments : ActivateOther(p)

SpecAny == Init /\ [][NextAny]_vars

\* C11: whatever argument activatePhone was called with, the stored active card is
\* null or one of the configured items '1', '2', '3'.
StoredSelectionValid ==
  getActivePhone \in PhoneNumbers \cup {Null}

(***************************************************************************)
(* The queries getActivePhone() and isPhoneActive(p) as calls.            *)
(***************************************************************************)
OpResult(op, arg, result) ==
  [op |-> op, target |-> Null, key |-> Null, arg |-> arg, result |-> result]

GetActivePhone ==
  /\ Becomes(Self, OpResult("getActivePhone", NoArg, getActivePhone))

IsPhoneActive(p) ==
  /\ p \in ApiArguments
  /\ Becomes(Self, OpResult("isPhoneActive", p, BoolToString(isPhoneActive(p))))

NextQueries ==
  \/ Next
  \/ GetActivePhone
  \/ \E p \in ApiArguments : IsPhoneActive(p)

SpecQueries == Init /\ [][NextQueries]_vars

\* The identifier a configured item is given by: the string itself, or for the
\* number n the n-th entry of the item list.
StringForm(p) == IF p.type = "number" THEN getPhoneNumbers[p.num] ELSE p.str

\* The last operation left the container, the overlays, the listeners, the
\* configuration and the stored active card as they were.
StateUnchanged == Snapshot(Self) = pre /\ dispatched = <<>>

\* C12: for every item p, given as number or string, isPhoneActive(p) is true
\* exactly when getActivePhone() is the string form of p; a call of either query
\* returns that value and leaves all state unchanged.
QueryConsistency ==
  /\ \A p \in ApiArguments : isPhoneActive(p) <=> (getActivePhone = StringForm(p))
  /\ lastOp.op = "isPhoneActive" =>
       /\ lastOp.result = BoolToString(pre.activeCard = StringForm(lastOp.arg))
       /\ StateUnchanged
  /\ lastOp.op = "getActivePhone" =>
       /\ lastOp.result = pre.activeCard
       /\ StateUnchanged

\* isPhoneActive(2), the argument a number, answered true while item 2 is active.
QueryConsistencyWitness ==
  /\ lastOp.op = "isPhoneActive"
  /\ lastOp.arg = JsNumber(2)
  /\ lastOp.result = "true"
  /\ activeCard = "2"

\* The markers and the ARIA flags agree with the stored active card: the container
\* carries the marker of the active card and no other, and an overlay's aria-pressed
\* and aria-expanded are true exactly when it is the overlay of the active card (an
\* absent flag is read as false).
Consistent(o) ==
  /\ ActiveMarkers(o.classList) =
       (IF o.activeCard = Null THEN {} ELSE {CardClass(o.activeCard)})
  /\ \A i \in 1..Len(o.overlays) :
       LET el == o.dom[o.overlays[i]]
       IN  /\ (el.ariaPressed = "true") <=> (el.dataPhone = o.activeCard)
           /\ (el.ariaExpanded = "true") <=> (el.dataPhone = o.activeCard)

\* C13: after construction, after every public operation (destroy() included) and
\* every input event, and at each dispatch of a notification, the container's marker
\* and every overlay's ARIA flags agree with the stored active card.
StateConsistency ==
  /\ Consistent(Observed(Self))
  /\ \A i \in 1..Len(dispatched) : Consistent(dispatched[i].seen)

\* C14: during a switch from Active(X) to Active(Y), Y # X, no phoneDeactivated is
\* delivered and no listener reads getActivePhone() as null.
DirectSwitch ==
  \A x, y \in PhoneNumbers :
    (x # y /\ Activated(y) /\ pre.activeCard = x) =>
      \A i \in 1..Len(dispatched) :
        /\ dispatched[i].type # "phoneDeactivated"
        /\ dispatched[i].seen.activeCard # Null

\* C16: destroy() called with an item X active ends in Idle: getActivePhone() is
\* null, the container carries no phone-N-active marker and no overlay element is
\* left in the document; and an activatePhone(X) that follows it ends in Active(X).
TeardownResetsToIdle ==
  /\ (lastOp.op = "destroy" /\ pre.activeCard # Null) =>
       /\ getActivePhone = Null
       /\ ActiveMarkers(classList) = {}
       /\ \A n \in DOMAIN dom : dom[n].parent = Null
  /\ \A x \in PhoneNumbers :
       (/\ lastOp.op = "activatePhone" /\ JsToString(lastOp.arg) = x
        /\ prevCall.op = "destroy" /\ prevCall.activeCard = x) =>
         /\ getActivePhone = x
         /\ CardClass(x) \in classList

\* The handler bindEvents registers on an overlay for a click and for a touchend.
PointerHandler(type) ==
  IF type = "click" THEN "handleInteraction" ELSE "handleTouchInteraction"

\* C18: one tap (a touchend, whose default action is a synthesized click) or one
\* mouse click on an overlay runs that event's handler once and togglePhone once,
\* and nothing else: no second handler, and never handleClickOutside.
SingleFire ==
  (lastOp.op \in {"click", "touchend"} /\ lastOp.target \in DOMAIN dom) =>
    invoked = <<PointerHandler(lastOp.op), "togglePhone">>

\* A tap on overlay 2 of a live instance with outside-click dismissal in place, item
\* 1 active before.
SingleFireWitness ==
  /\ lastOp.op = "touchend"
  /\ lastOp.target = "click-overlay click-overlay-2"
  /\ DismissalEnabled
  /\ ~destroyed
  /\ pre.activeCard = "1"
  /\ activeCard = "2"
  /\ invoked = <<"handleTouchInteraction", "togglePhone">>

\* C19: with outside-click dismissal enabled and no item active, a click outside the
\* container changes nothing (active card, markers, ARIA flags) and emits nothing,
\* phoneDeactivated included.
OutsideClickInIdleIsNoOp ==
  (OutsideClick /\ DismissalEnabled /\ pre.activeCard = Null) =>
    /\ NothingHappened
    /\ "phoneDeactivated" \notin EmittedTypes

\* A click on the page body reaches handleClickOutside on a live instance with no
\* active card.
OutsideClickInIdleWitness ==
  /\ OutsideClick
  /\ lastOp.target = "body"
  /\ DismissalEnabled
  /\ ~destroyed
  /\ Len(overlays) = 3
  /\ pre.activeCard = Null
  /\ invoked = <<"handleClickOutside">>

\* The data-phone identifiers of the overlays the instance holds.
OverlayIds == {dom[n].dataPhone : n \in OverlaySet}

\* destroy() left no overlay in the instance's list nor in the document.
OverlaysRemoved ==
  /\ overlays = <<>>
  /\ \A n \in DOMAIN dom : dom[n].parent = Null

\* C20 as stated: a constructed instance holds as many overlays as the container had
\* cards, with distinct identifiers, and destroy() removes them all.
OverlayPerCard ==
  phoneCards > 0 =>
    /\ ~destroyed =>
         /\ Len(overlays) = phoneCards
         /\ Cardinality(OverlayIds) = Len(overlays)
    /\ destroyed => OverlaysRemoved

\* C20: a constructed instance holds one overlay per configured item (three), whatever
\* the number of cards (at least one) in the container, with the items' distinct
\* identifiers, and destroy() removes them all from the list and from the document.
OverlayPerConfiguredItem ==
  phoneCards > 0 =>
    /\ ~destroyed =>
         /\ Len(overlays) = Len(getPhoneNumbers)
         /\ Cardinality(OverlayIds) = Len(overlays)
         /\ OverlayIds = PhoneNumbers
         /\ \A n \in OverlaySet : dom[n].parent = "container"
    /\ destroyed => OverlaysRemoved

\* destroy() on an instance built on two cards that held three overlays.
OverlayPerConfiguredItemWitness ==
  /\ lastOp.op = "destroy"
  /\ phoneCards = 2
  /\ Len(pre.overlays) = 3
  /\ \A i \in 1..3 : pre.dom[pre.overlays[i]].parent = "container"
  /\ OverlaysRemoved
  /\ Cardinality(DOMAIN dom) = 3

\* C17: the constructor never throws: given a null container or a container without
\* cards it warns and returns an inert instance.
ConstructionNeverThrows ==
  lastOp.op = "new" =>
    /\ thrown = Null
    /\ phoneCards = 0 => (warnings = 1 /\ overlays = <<>> /\ listeners = {})

\* The marker on the container before the last operation agreed with the active card.
PreConsistent ==
  ActiveMarkers(pre.classList) =
    (IF pre.activeCard = Null THEN {} ELSE {CardClass(pre.activeCard)})

\* A listener called back into the instance during the last operation.
NestedCall == \E i \in 1..Len(invoked) : invoked[i] = "listener"

\* C15: a transition requested by a notification listener during the dispatch does
\* not interleave with the one that dispatched: started from a consistent state, the
\* operation leaves at most one marker on the container, and that marker agrees with
\* getActivePhone().
NoInterleaving ==
  (NestedCall /\ PreConsistent) =>
    /\ Cardinality(ActiveMarkers(classList)) <= 1
    /\ ActiveMarkers(classList) =
         (IF getActivePhone = Null THEN {} ELSE {CardClass(getActivePhone)})

====
